---- MODULE Spec2Model ----
(***************************************************************************)
(* State-machine model of DBFolderPlugin (src/src/main.ts): the window     *)
(* registry, the StateManager index, the delayed metadata-change           *)
(* subscription, and the WorkspaceLeaf interceptors (setViewState, detach) *)
(* together with the plugin's load / unload sequence.                      *)
(***************************************************************************)
EXTENDS Naturals, Sequences, FiniteSets, TLC

\* ------------------------------------------------------------------------
\* Bounds of the model
\* ------------------------------------------------------------------------
MaxManagers == 2
MaxReceivers == 1
MaxListeners == 2
MaxSaves == 2

\* ------------------------------------------------------------------------
\* The small universe the inputs are drawn from
\* ------------------------------------------------------------------------
Windows == {"w1", "w2"}
MainWindow == "w1"
Views == {"v1", "v2", "v3"}
Files == {"f1", "f2"}
Receivers == {"r1"}
Leaves == {"l1", "l2"}
NoFile == "nofile"
NoView == "noview"
NoLeaf == "noleaf"
\* a TFolder, as the file of a file-menu event
Folder == "folder"
\* view.file: v1 and v2 show the same database file, v3 another one
ViewFile(v) == IF v = "v3" THEN "f2" ELSE "f1"
\* DatabaseCore.FRONTMATTER_KEY, the database view type and mode tag
FRONTMATTER_KEY == "database"
MARKDOWN == "markdown"
EMPTY == "empty"
\* what app.metadataCache.getCache(path) can do for a file: yield no cache, a
\* cache without frontmatter, frontmatter without or with the marker key, or
\* throw (the index is not ready)
CacheKinds == {"nocache", "nofrontmatter", "nokey", "marker", "throws"}

VARIABLES
    windowRegistry,     \* Map<Window, WindowRegistry>, in insertion order
    stateManagers,      \* Map<TFile, StateManager>
    nextManager,        \* identity of the next StateManager instance
    dom,                \* render roots attached to a window's body
    settings,           \* this.settings
    saving,             \* saveData() calls in flight, with the data each one writes
    persisted,          \* the plugin data on disk, as last read or written
    changeIndex,        \* history: the managers indexed when the last completed save began
    loaded,             \* this._loaded
    lifecycle,          \* load() and unload(): which has been called, how far unload got
    installed,          \* the events, commands, settings tab and patches are registered
    onloadAt,           \* position of the asynchronous onload()
    listeners,          \* registered dataview:metadata-change listeners
    timers,             \* pending setTimeout(..., 2500) callbacks
    reloading,          \* index-ready handlers awaiting reloadDatabase()
    pendingAuto,        \* history: enable_auto_update as it was when each of them began
    leaves,             \* the workspace leaves: attached?, view type, file
    databaseFileModes,  \* Record<string, string>
    marked,             \* history: leaves marked "markdown", not yet cleared
    recorder,           \* history: the leaf whose operation wrote each entry
    menu,               \* the item the plugin added to the menu that is open, if any
    leafIds,            \* the host's leaves carry an id (this.id), or none does
    hotkeys,            \* the executeCommand wrapper: "none", "pending" (layout not ready) or "patched"
    setBack,            \* history: the leaves unload() asked for markdown: "held" or "released"
    op,                 \* the operation that ran last and its inputs
    out                 \* the calls the last operation made, in order

vars == <<windowRegistry, stateManagers, nextManager, dom, settings, saving,
          persisted, changeIndex, loaded, lifecycle, installed, onloadAt, listeners, timers, reloading,
          pendingAuto, leaves, databaseFileModes, marked, recorder, menu, setBack, leafIds, hotkeys, op, out>>

regVars == <<windowRegistry, stateManagers, nextManager, dom>>
leafVars == <<leaves, databaseFileModes, marked, recorder, menu, setBack, leafIds>>
eventVars == <<listeners, timers, reloading, pendingAuto>>
saveVars == <<saving, persisted, changeIndex>>

\* ------------------------------------------------------------------------
\* Helpers: insertion-ordered maps as sequences, plain maps as functions
\* ------------------------------------------------------------------------
EmptyMap == [x \in {} |-> x]
MapSet(m, k, v) == [x \in (DOMAIN m) \cup {k} |-> IF x = k THEN v ELSE m[x]]
MapDelete(m, k) == [x \in (DOMAIN m) \ {k} |-> m[x]]
MapGet(m, k, absent) == IF k \in DOMAIN m THEN m[k] ELSE absent
SeqHas(s, x) == \E i \in 1..Len(s) : s[i] = x
SeqDelete(s, x) == SelectSeq(s, LAMBDA e : e # x)
RemoveAt(s, i) == SubSeq(s, 1, i - 1) \o SubSeq(s, i + 1, Len(s))
Range(s) == {s[i] : i \in 1..Len(s)}

\* a call made by an operation: who is called, with what
Ev(call, target, arg, n) == [call |-> call, target |-> target, arg |-> arg, n |-> n]
Op(name, args) == [name |-> name, args |-> args]
Calls(o, call) == SelectSeq(o, LAMBDA e : e.call = call)
CallsTo(o, call, target) == SelectSeq(o, LAMBDA e : e.call = call /\ e.target = target)

\* the registry side of the plugin, threaded through nested calls
RegState == [reg |-> windowRegistry, sm |-> stateManagers, nextManager |-> nextManager,
             dom |-> dom, bad |-> {}, out |-> <<>>]

\* the same, for a call during which destroy() of the views in bad throws
RegStateWith(bad) == [RegState EXCEPT !.bad = bad]

\* an exception was thrown in the operation under way and nothing caught it
Thrown(S) == Calls(S.out, "throw") # <<>>

\* this.windowRegistry.get(win): position of win's entry, 0 when there is none
RegIndex(reg, w) ==
    IF \E i \in 1..Len(reg) : reg[i].win = w
    THEN CHOOSE i \in 1..Len(reg) : reg[i].win = w
    ELSE 0

\* Array.from(entries()).find(([, reg]) => reg.viewMap.has(view.id)): first match
OwnerIndex(reg, v) ==
    IF \E i \in 1..Len(reg) : SeqHas(reg[i].viewMap, v)
    THEN CHOOSE i \in 1..Len(reg) :
            /\ SeqHas(reg[i].viewMap, v)
            /\ \A j \in 1..(i - 1) : ~SeqHas(reg[j].viewMap, v)
    ELSE 0

getDatabaseViews(reg, w) ==
    LET i == RegIndex(reg, w) IN IF i # 0 THEN reg[i].viewMap ELSE <<>>

\* reg.viewStateReceivers.forEach((fn) => fn(this.getDatabaseViews(win)))
NotifyReceivers(S, w) ==
    LET i == RegIndex(S.reg, w)
        rs == S.reg[i].viewStateReceivers
        views == getDatabaseViews(S.reg, w)
    IN [S EXCEPT !.out = @ \o [k \in 1..Len(rs) |-> Ev("receiver", <<w, rs[k]>>, views, 0)]]

\* ------------------------------------------------------------------------
\* StateManager
\* ------------------------------------------------------------------------
\* new StateManager(view, onEmpty, getGlobalSettings): registers the first view
NewStateManager(id, v) == [id |-> id, viewSet |-> {v}]

registerView(m, v) == [m EXCEPT !.viewSet = @ \cup {v}]

\* a dispose callback that forgets to drop the manager from the index
OnEmpty_Keep(S, f) == S

\* the dispose callback handed to the manager: () => this.stateManagers.delete(file)
OnEmpty(S, f) == [S EXCEPT !.sm = MapDelete(@, f)]

\* unregisterView: drop the observer; the last one leaving disposes the manager
unregisterView(S, f, v) ==
    LET m == S.sm[f] IN
    IF v \notin m.viewSet THEN S
    ELSE LET S1 == [S EXCEPT !.sm[f].viewSet = @ \ {v}] IN
         IF S1.sm[f].viewSet = {}
         THEN OnEmpty([S1 EXCEPT !.out = Append(@, Ev("dispose", <<f>>, <<>>, m.id))], f)
         ELSE S1

\* ------------------------------------------------------------------------
\* Window registry operations
\* ------------------------------------------------------------------------
\* win.document.body.createDiv(): a new element, named by the least unused number
createDiv(d) ==
    CHOOSE n \in 1..(Cardinality(d) + 1) :
        /\ \A e \in d : e[2] # n
        /\ \A k \in 1..(n - 1) : \E e \in d : e[2] = k

\* a mount that registers a fresh entry even when the window has one
mount_Again(S, w) ==
    LET el == createDiv(S.dom)
        i == RegIndex(S.reg, w)
        fresh == [win |-> w, viewMap |-> <<>>, viewStateReceivers |-> <<>>, appRoot |-> el]
    IN [S EXCEPT !.reg = IF i = 0 THEN Append(@, fresh) ELSE [@ EXCEPT ![i] = fresh],
                 !.dom = @ \cup {<<w, el>>}]

mount(S, w) ==
    IF RegIndex(S.reg, w) # 0 THEN S
    ELSE LET el == createDiv(S.dom) IN
         [S EXCEPT !.reg = Append(@, [win |-> w, viewMap |-> <<>>,
                                      viewStateReceivers |-> <<>>,
                                      appRoot |-> el]),
                   !.dom = @ \cup {<<w, el>>}]

\* an addView that registers the view with its manager even when the window
\* has no entry
addView_NoGuard(S, v, win) ==
    LET i == RegIndex(S.reg, win)
        S1 == IF i = 0 \/ SeqHas(S.reg[i].viewMap, v) THEN S
              ELSE [S EXCEPT !.reg[i].viewMap = Append(@, v)]
        f == ViewFile(v)
        S2 == IF f \in DOMAIN S1.sm
              THEN [S1 EXCEPT !.sm[f] = registerView(@, v)]
              ELSE [S1 EXCEPT !.sm = MapSet(@, f, NewStateManager(S1.nextManager, v)),
                              !.nextManager = @ + 1]
    IN IF i = 0 THEN S2 ELSE NotifyReceivers(S2, win)

addView(S, v, win) ==
    LET i == RegIndex(S.reg, win) IN
    IF i = 0 THEN S
    ELSE LET S1 == IF SeqHas(S.reg[i].viewMap, v) THEN S
                   ELSE [S EXCEPT !.reg[i].viewMap = Append(@, v)]
             f == ViewFile(v)
             S2 == IF f \in DOMAIN S1.sm
                   THEN [S1 EXCEPT !.sm[f] = registerView(@, v)]
                   ELSE [S1 EXCEPT !.sm = MapSet(@, f, NewStateManager(S1.nextManager, v)),
                                   !.nextManager = @ + 1]
         IN NotifyReceivers(S2, win)

removeView(S, v) ==
    LET i == OwnerIndex(S.reg, v) IN
    IF i = 0 THEN S
    ELSE LET w == S.reg[i].win
             f == ViewFile(v)
             S1 == [S EXCEPT !.reg[i].viewMap = SeqDelete(@, v)]
         IN IF f \in DOMAIN S1.sm
            THEN NotifyReceivers(unregisterView(S1, f, v), w)
            ELSE S1

\* view.destroy(): the view unregisters itself from the plugin; a failing
\* destroy throws before it has unregistered anything
destroy(S, v) ==
    LET S1 == [S EXCEPT !.out = Append(@, Ev("destroy", <<v>>, <<>>, 0))] IN
    IF v \in S.bad
    THEN [S1 EXCEPT !.out = Append(@, Ev("throw", <<v>>, <<>>, 0))]
    ELSE removeView(S1, v)

\* for (const view of reg.viewMap.values()) view.destroy(): no try / catch, the
\* first exception ends the loop
RECURSIVE DestroyAll(_, _)
DestroyAll(S, views) ==
    IF views = <<>> \/ Thrown(S) THEN S
    ELSE DestroyAll(destroy(S, Head(views)), Tail(views))

\* an unmount that also drops the managers of the files its views show
unmount_DropManagers(S, w) ==
    LET i == RegIndex(S.reg, w) IN
    IF i = 0 THEN S
    ELSE LET S1 == DestroyAll(S, S.reg[i].viewMap)
             j == RegIndex(S1.reg, w)
             gone == {ViewFile(v) : v \in Range(S.reg[i].viewMap)}
         IN [S1 EXCEPT !.out = Append(@, Ev("remove", <<w>>, <<>>, S1.reg[j].appRoot)),
                       !.dom = @ \ {<<w, S1.reg[j].appRoot>>},
                       !.reg = RemoveAt(@, j),
                       !.sm = [f \in (DOMAIN S1.sm) \ gone |-> S1.sm[f]]]

unmount(S, w) ==
    LET i == RegIndex(S.reg, w) IN
    IF i = 0 THEN S
    ELSE LET S1 == DestroyAll(S, S.reg[i].viewMap)
             j == RegIndex(S1.reg, w)
         IN IF Thrown(S1) THEN S1
            ELSE [S1 EXCEPT !.out = Append(@, Ev("remove", <<w>>, <<>>, S1.reg[j].appRoot)),
                            !.dom = @ \ {<<w, S1.reg[j].appRoot>>},
                            !.reg = RemoveAt(@, j)]

Commit(S) ==
    /\ windowRegistry' = S.reg
    /\ stateManagers' = S.sm
    /\ nextManager' = S.nextManager
    /\ dom' = S.dom
    /\ out' = S.out

\* an onunload loop that unmounts the windows without telling their receivers
RECURSIVE UnmountEach_Silent(_, _)
UnmountEach_Silent(S, wins) ==
    IF wins = <<>> \/ Thrown(S) THEN S
    ELSE UnmountEach_Silent(unmount(S, Head(wins)), Tail(wins))

\* async onunload(): every window's receivers get [], every window is unmounted,
\* then the index and the registry are cleared
RECURSIVE UnmountEach(_, _)
UnmountEach(S, wins) ==
    IF wins = <<>> \/ Thrown(S) THEN S
    ELSE LET w == Head(wins)
             i == RegIndex(S.reg, w)
         IN IF i = 0 THEN UnmountEach(S, Tail(wins))
            ELSE LET rs == S.reg[i].viewStateReceivers
                     S1 == [S EXCEPT !.out = @ \o [k \in 1..Len(rs) |->
                                                Ev("receiver", <<w, rs[k]>>, <<>>, 0)]]
                 IN UnmountEach(unmount(S1, w), Tail(wins))

onunload(S) ==
    LET S1 == UnmountEach(S, [i \in 1..Len(S.reg) |-> S.reg[i].win])
        S2 == IF Thrown(S1) THEN S1 ELSE unmount(S1, MainWindow)
    IN IF Thrown(S2) THEN S2 ELSE [S2 EXCEPT !.sm = EmptyMap, !.reg = <<>>]

\* ------------------------------------------------------------------------
\* Settings
\* ------------------------------------------------------------------------
DEFAULT_SETTINGS ==
    [global_settings |-> [enable_auto_update |-> TRUE, enable_debug_mode |-> FALSE],
     local_settings |-> [cell_size |-> "normal"]]

\* the persisted blobs loadData() may return: nothing, a full group, a partial group
Blobs ==
    {EmptyMap,
     [global_settings |-> [enable_auto_update |-> FALSE, enable_debug_mode |-> FALSE]],
     [global_settings |-> [enable_debug_mode |-> TRUE]]}

\* Object.assign({}, DEFAULT_SETTINGS, blob): the blob's top-level keys win
load_settings(blob) ==
    [g \in (DOMAIN DEFAULT_SETTINGS) \cup (DOMAIN blob) |->
        IF g \in DOMAIN blob THEN blob[g] ELSE DEFAULT_SETTINGS[g]]

\* this.settings.global_settings.enable_auto_update, as a condition
AutoUpdateEnabled(s) ==
    /\ "global_settings" \in DOMAIN s
    /\ "enable_auto_update" \in DOMAIN s["global_settings"]
    /\ s["global_settings"]["enable_auto_update"] = TRUE

\* ------------------------------------------------------------------------
\* WorkspaceLeaf interceptors
\* ------------------------------------------------------------------------
\* this.id of a leaf: its own name, or empty on a host whose leaves carry none
LeafId(l) == IF leafIds THEN l ELSE ""
\* this.id || file
ModeKey(l, file) == IF LeafId(l) # "" THEN LeafId(l) ELSE file

LeafState == [leaves |-> leaves, modes |-> databaseFileModes, marked |-> marked,
              recorder |-> recorder, menu |-> menu, setBack |-> setBack,
              reattach |-> FALSE, loaded |-> loaded,
              installed |-> installed, out |-> <<>>]

Request(type, file, popstate) == [type |-> type, file |-> file, popstate |-> popstate]

\* the original WorkspaceLeaf.setViewState, reached through next.apply: the
\* host is handed the request and the leaf shows what was requested. What the
\* host does with a leaf that has been detached is its own business: it may
\* leave it out of the workspace or put it back (M.reattach)
HostSetViewState(M, l, req) ==
    [M EXCEPT !.out = Append(@, Ev("setViewState", <<l>>, <<req.type, req.file, req.popstate>>, 0)),
              !.leaves[l] = [attached |-> @.attached \/ M.reattach,
                             type |-> req.type, file |-> req.file]]

\* the leaves unload() has asked for markdown that are still "held": still in
\* the workspace and not asked for another view type by anybody since
Held(sb) == {l \in DOMAIN sb : sb[l] = "held"}

\* leaf l is detached, or is explicitly asked for a view type other than markdown
Release(M, l) ==
    IF l \in DOMAIN M.setBack THEN [M EXCEPT !.setBack[l] = "released"] ELSE M

\* the original WorkspaceLeaf.detach
HostDetach(M, l) ==
    [M EXCEPT !.out = Append(@, Ev("detach", <<l>>, <<>>, 0)),
              !.leaves[l] = [attached |-> FALSE, type |-> EMPTY, file |-> NoFile]]

\* the key whose override the interceptor consults
OverrideKey(l, file) == ModeKey(l, file)

\* the key under which an automatic promotion is recorded
PromotionKey(l, file) == file

\* cache?.frontmatter && cache.frontmatter[DatabaseCore.FRONTMATTER_KEY]
CarriesMarker(kind) == kind = "marker"

\* the outer condition of the setViewState wrapper
ShouldInspect(M, l, req) ==
    /\ M.loaded
    /\ req.type = MARKDOWN
    /\ req.file # NoFile
    /\ MapGet(M.modes, OverrideKey(l, req.file), "absent") # MARKDOWN

\* getCache is called only when the outer condition holds; when it throws,
\* nothing catches it and the original setViewState is never called
InterceptSetViewState(M, l, req, kind) ==
    IF ShouldInspect(M, l, req) /\ kind = "throws"
    THEN [M EXCEPT !.out = Append(@, Ev("throw", <<l>>, <<>>, 0))]
    ELSE IF ShouldInspect(M, l, req) /\ CarriesMarker(kind)
    THEN LET k == PromotionKey(l, req.file)
             M1 == [M EXCEPT !.modes = MapSet(@, k, FRONTMATTER_KEY),
                             !.recorder = MapSet(@, k, l)]
         IN HostSetViewState(M1, l, [req EXCEPT !.type = FRONTMATTER_KEY])
    ELSE HostSetViewState(M, l, req)

\* leaf.setViewState(...): the wrapper while the patch is installed, the
\* original method otherwise
LeafSetViewState(M, l, req, kind) ==
    IF M.installed THEN InterceptSetViewState(M, l, req, kind)
    ELSE HostSetViewState(M, l, req)

InterceptDetach(M, l) ==
    LET file == M.leaves[l].file
        k == ModeKey(l, file)
        M1 == IF file # NoFile /\ k \in DOMAIN M.modes
              THEN [M EXCEPT !.modes = MapDelete(@, k), !.recorder = MapDelete(@, k)]
              ELSE M
    IN HostDetach(M1, l)

\* leaf.setViewState({type: "markdown", state: leaf.view.getState(), popstate: true})
setMarkdownView(M, l, kind) ==
    LeafSetViewState(M, l, Request(MARKDOWN, M.leaves[l].file, "pop"), kind)

\* leaf.setViewState({type: FRONTMATTER_KEY, state: leaf.view.getState(), popstate: true})
setDatabaseView(M, l, kind) ==
    LeafSetViewState(M, l, Request(FRONTMATTER_KEY, M.leaves[l].file, "pop"), kind)

\* unload(): "markdown" is written under leaf.id, then the leaf is asked for
\* markdown; the leaf counts as marked when that is the key the wrapper reads
UnloadLeaf(M, l, kind) ==
    setMarkdownView([M EXCEPT !.modes = MapSet(@, LeafId(l), MARKDOWN),
                              !.recorder = MapSet(@, LeafId(l), l),
                              !.marked = IF LeafId(l) # "" THEN @ \cup {l} ELSE @], l, kind)

RECURSIVE UnloadLeaves(_, _, _)
UnloadLeaves(M, ls, cache) ==
    IF ls = <<>> THEN M
    ELSE UnloadLeaves(UnloadLeaf(M, Head(ls), cache[M.leaves[Head(ls)].file]), Tail(ls), cache)

\* app.workspace.getLeavesOfType(DatabaseCore.FRONTMATTER_KEY), in workspace order
LeafOrder == <<"l1", "l2">>
getLeavesOfType(ls, type) ==
    SelectSeq(LeafOrder, LAMBDA l : ls[l].attached /\ ls[l].type = type)

CommitLeaves(M) ==
    /\ leaves' = M.leaves
    /\ databaseFileModes' = M.modes
    /\ marked' = M.marked
    /\ recorder' = M.recorder
    /\ menu' = M.menu
    /\ setBack' = M.setBack
    /\ leafIds' = leafIds
    /\ out' = M.out

\* ------------------------------------------------------------------------
\* Initial state: the plugin object as constructed, before load
\* ------------------------------------------------------------------------
\* this.settings before load_settings has assigned it
Undefined == EmptyMap

InitWith(ids) ==
    /\ windowRegistry = <<>>
    /\ stateManagers = EmptyMap
    /\ nextManager = 1
    /\ dom = {}
    /\ settings = Undefined
    /\ saving = <<>>
    /\ persisted = EmptyMap
    /\ changeIndex = {}
    /\ loaded = FALSE
    /\ lifecycle = "constructed"
    /\ installed = FALSE
    /\ onloadAt = "idle"
    /\ listeners = 0
    /\ timers = 0
    /\ reloading = 0
    /\ pendingAuto = <<>>
    /\ leaves = [l \in Leaves |-> [attached |-> TRUE, type |-> EMPTY, file |-> NoFile]]
    /\ databaseFileModes = EmptyMap
    /\ marked = {}
    /\ recorder = EmptyMap
    /\ menu = <<>>
    /\ setBack = EmptyMap
    /\ leafIds \in ids
    /\ hotkeys = "none"
    /\ op = Op("new", <<>>)
    /\ out = <<>>

\* the plugin as constructed, on a host with or without leaf ids
Init == InitWith(BOOLEAN)

\* ------------------------------------------------------------------------
\* Load
\* ------------------------------------------------------------------------
\* Component.load(): _loaded is set and onload() starts; it returns to the event
\* loop at "await this.load_settings()", where loadData() is pending
Load ==
    /\ lifecycle = "constructed"
    /\ loaded' = TRUE
    /\ lifecycle' = "running"
    /\ onloadAt' = "load_settings"
    /\ op' = Op("load", <<>>)
    /\ out' = <<>>
    /\ UNCHANGED <<saveVars, regVars, settings, installed, hotkeys, eventVars, leafVars>>

\* loadData() resolves with blob: load_settings merges it over the defaults;
\* onload returns to the event loop at "await this.loadServices()"
SettingsLoaded(blob) ==
    /\ onloadAt = "load_settings"
    /\ persisted' = blob
    /\ settings' = load_settings(blob)
    /\ onloadAt' = "loadServices"
    /\ op' = Op("settings-loaded", <<>>)
    /\ out' = <<>>
    /\ UNCHANGED <<saving, changeIndex, regVars, loaded, lifecycle, installed, hotkeys, eventVars,
                   leafVars>>

\* app.workspace.onLayoutReady(callback): the callback runs right away when the
\* layout is ready, and is kept for later when it is not
onLayoutReady(ready) == IF ready THEN "patched" ELSE "pending"

\* loadServices() resolves: the rest of onload runs in one go: the events, the
\* settings tab, the commands and the patches are registered, and the main
\* window is mounted
Onload(ready) ==
    /\ onloadAt = "loadServices"
    /\ onloadAt' = "done"
    /\ installed' = TRUE
    /\ hotkeys' = onLayoutReady(ready)
    /\ Commit(mount(RegState, MainWindow))
    /\ op' = Op("onload", <<IF ready THEN "ready" ELSE "notready">>)
    /\ UNCHANGED <<saveVars, settings, loaded, lifecycle, eventVars, leafVars>>

\* the workspace layout becomes ready: the callback given to onLayoutReady runs
\* and patches executeCommand, whatever has become of the plugin meanwhile
LayoutReady ==
    /\ hotkeys = "pending"
    /\ hotkeys' = "patched"
    /\ op' = Op("layout-ready", <<>>)
    /\ out' = <<>>
    /\ UNCHANGED <<saveVars, regVars, settings, loaded, lifecycle, installed, onloadAt, eventVars,
                   leafVars>>

\* ------------------------------------------------------------------------
\* Window registry actions
\* ------------------------------------------------------------------------
\* workspace "window-open"
Mount(w) ==
    /\ installed
    /\ Commit(mount(RegState, w))
    /\ op' = Op("mount", <<w>>)
    /\ UNCHANGED <<saveVars, settings, loaded, lifecycle, installed, hotkeys, onloadAt, eventVars, leafVars>>

\* workspace "window-close", while destroy() of the views in bad throws
UnmountWith(w, bad) ==
    /\ installed
    /\ Commit(unmount(RegStateWith(bad), w))
    /\ op' = Op("unmount", <<w>>)
    /\ UNCHANGED <<saveVars, settings, loaded, lifecycle, installed, hotkeys, onloadAt, eventVars, leafVars>>

\* workspace "window-close"
Unmount(w) == UnmountWith(w, {})

\* a view registers itself; win is what its getWindow() returns at the call
AddView(v, win) ==
    /\ \/ RegIndex(windowRegistry, win) = 0
       \/ ViewFile(v) \in DOMAIN stateManagers
       \/ nextManager <= MaxManagers
    /\ Commit(addView(RegState, v, win))
    /\ op' = Op("addView", <<v, win>>)
    /\ UNCHANGED <<saveVars, settings, loaded, lifecycle, installed, hotkeys, onloadAt, eventVars, leafVars>>

RemoveView(v) ==
    /\ Commit(removeView(RegState, v))
    /\ op' = Op("removeView", <<v>>)
    /\ UNCHANGED <<saveVars, settings, loaded, lifecycle, installed, hotkeys, onloadAt, eventVars, leafVars>>

\* a component of window w subscribes to the window's view list
Subscribe(w, r) ==
    /\ LET i == RegIndex(windowRegistry, w) IN
        /\ i # 0
        /\ ~SeqHas(windowRegistry[i].viewStateReceivers, r)
        /\ Len(windowRegistry[i].viewStateReceivers) < MaxReceivers
        /\ windowRegistry' = [windowRegistry EXCEPT ![i].viewStateReceivers = Append(@, r)]
    /\ op' = Op("subscribe", <<w, r>>)
    /\ out' = <<>>
    /\ UNCHANGED <<saveVars, stateManagers, nextManager, dom, settings, loaded, lifecycle, installed, hotkeys, onloadAt,
                   eventVars, leafVars>>

\* ------------------------------------------------------------------------
\* Dataview events
\* ------------------------------------------------------------------------
\* a handler that starts the timer whatever the settings say
AfterReload_Always(n) == n + 1

\* what the index-ready handler does once the reload, if any, is over
AfterReload(n) == IF AutoUpdateEnabled(settings) THEN n + 1 ELSE n

\* "dataview:index-ready": reload the active database view, then arm the timer
IndexReady(av) ==
    /\ installed
    /\ listeners + timers + reloading < MaxListeners
    /\ IF av # NoView
       THEN /\ reloading' = reloading + 1
            /\ pendingAuto' = Append(pendingAuto, AutoUpdateEnabled(settings))
            /\ timers' = timers
            /\ out' = <<Ev("reloadDatabase", <<av>>, <<>>, 0)>>
       ELSE /\ reloading' = reloading
            /\ pendingAuto' = pendingAuto
            /\ timers' = AfterReload(timers)
            /\ out' = <<>>
    /\ op' = Op("index-ready", <<av>>)
    /\ UNCHANGED <<saveVars, regVars, settings, loaded, lifecycle, installed, hotkeys, onloadAt, listeners, leafVars>>

\* await initView.reloadDatabase() completes
ReloadDone ==
    /\ reloading > 0
    /\ reloading' = reloading - 1
    /\ \E i \in 1..Len(pendingAuto) : pendingAuto' = RemoveAt(pendingAuto, i)
    /\ timers' = AfterReload(timers)
    /\ op' = Op("reload-done", <<>>)
    /\ out' = <<>>
    /\ UNCHANGED <<saveVars, regVars, settings, loaded, lifecycle, installed, hotkeys, onloadAt, listeners, leafVars>>

\* the 2500 ms timer fires: the metadata-change listener is registered
TimerFire ==
    /\ timers > 0
    /\ timers' = timers - 1
    /\ listeners' = listeners + 1
    /\ op' = Op("timer", <<>>)
    /\ out' = <<>>
    /\ UNCHANGED <<saveVars, regVars, settings, loaded, lifecycle, installed, hotkeys, onloadAt, reloading, pendingAuto, leafVars>>

\* one listener's pass over every window's viewMap
Deliveries(reg, file, av) ==
    LET perWindow(i) == [k \in 1..Len(reg[i].viewMap) |->
            Ev("handleExternalMetadataChange", <<reg[i].viewMap[k]>>,
               <<file, IF av # NoView /\ ViewFile(reg[i].viewMap[k]) = ViewFile(av)
                       THEN "active" ELSE "inactive">>, 0)]
        F[i \in 0..Len(reg)] == IF i = 0 THEN <<>> ELSE F[i - 1] \o perWindow(i)
    IN F[Len(reg)]

RECURSIVE Repeat(_, _)
Repeat(s, n) == IF n = 0 THEN <<>> ELSE s \o Repeat(s, n - 1)

\* "dataview:metadata-change": every registered listener runs; before the
\* first registration the event passes the plugin by
MetadataChange(file, av) ==
    /\ out' = Repeat(Deliveries(windowRegistry, file, av), listeners)
    /\ op' = Op("metadata-change", <<file, av>>)
    /\ UNCHANGED <<saveVars, regVars, settings, loaded, lifecycle, installed, hotkeys, onloadAt, eventVars, leafVars>>

\* ------------------------------------------------------------------------
\* Settings changes
\* ------------------------------------------------------------------------
\* the settings objects the settings tab hands to onSettingsChange
SettingsChoices ==
    {DEFAULT_SETTINGS,
     [DEFAULT_SETTINGS EXCEPT !.global_settings.enable_auto_update = FALSE]}

\* () => this.settings, the provider every StateManager is constructed with
getGlobalSettings == settings

ManagerIds(sm) == {sm[f].id : f \in DOMAIN sm}

\* this.stateManagers.forEach((stateManager) => stateManager.forceRefresh()),
\* in the Map's insertion order, which is the order of creation
ForceRefreshAll(sm) ==
    LET ids == ManagerIds(sm)
        top == IF ids = {} THEN 0 ELSE CHOOSE n \in ids : \A k \in ids : k <= n
        F[n \in 0..top] ==
            IF n = 0 THEN <<>>
            ELSE IF n \in ids
                 THEN Append(F[n - 1], Ev("forceRefresh", <<CHOOSE f \in DOMAIN sm : sm[f].id = n>>, <<>>, n))
                 ELSE F[n - 1]
    IN F[top]

\* a refresh that does not wait for the save: the managers indexed when the
\* change is made are refreshed at once
RefreshOnChange_Early(sm) == ForceRefreshAll(sm)

\* the calls onSettingsChange makes to managers before the save has completed
RefreshOnChange(sm) == <<>>

\* onSettingsChange: this.settings = newSettings; await this.saveSettings() ...
\* The callback belongs to the settings tab, which is registered by onload
SettingsChange(newSettings) ==
    /\ installed
    /\ Len(saving) < MaxSaves
    /\ settings' = newSettings
    /\ saving' = Append(saving, [data |-> newSettings, index |-> ManagerIds(stateManagers),
                                  refresh |-> TRUE, by |-> "onSettingsChange"])
    /\ out' = <<Ev("saveData", <<>>, <<>>, 0)>> \o RefreshOnChange(stateManagers)
    /\ op' = Op("settings-change", <<>>)
    /\ UNCHANGED <<persisted, changeIndex, regVars, loaded, lifecycle, installed, hotkeys, onloadAt, eventVars, leafVars>>

\* the partial settings other components hand to updateSettings
Partial1 == [global_settings |-> [enable_auto_update |-> FALSE, enable_debug_mode |-> TRUE]]
Partials == {Partial1}

\* Object.assign(this.settings, settings)
updateSettings(s, partial) ==
    [g \in (DOMAIN s) \cup (DOMAIN partial) |-> IF g \in DOMAIN partial THEN partial[g] ELSE s[g]]

\* async updateSettings(settings): merge, then await this.saveData(this.settings).
\* A public method, callable at any time: before load_settings has assigned
\* this.settings, Object.assign(undefined, ...) throws and nothing is saved
UpdateSettings(partial) ==
    /\ Len(saving) < MaxSaves
    /\ IF settings = Undefined
       THEN /\ settings' = settings
            /\ saving' = saving
            /\ out' = <<Ev("throw", <<>>, <<>>, 0)>>
       ELSE /\ settings' = updateSettings(settings, partial)
            /\ saving' = Append(saving, [data |-> settings',
                                          index |-> ManagerIds(stateManagers),
                                          refresh |-> FALSE, by |-> "updateSettings"])
            /\ out' = <<Ev("saveData", <<>>, <<>>, 0)>>
    /\ op' = Op("updateSettings", <<>>)
    /\ UNCHANGED <<persisted, changeIndex, regVars, loaded, lifecycle, installed, hotkeys, onloadAt, eventVars, leafVars>>

\* async saveSettings(): await this.saveData(this.settings), whatever
\* this.settings is at the time
SaveSettings ==
    /\ Len(saving) < MaxSaves
    /\ saving' = Append(saving, [data |-> settings, index |-> ManagerIds(stateManagers),
                                  refresh |-> FALSE, by |-> "saveSettings"])
    /\ out' = <<Ev("saveData", <<>>, <<>>, 0)>>
    /\ op' = Op("saveSettings", <<>>)
    /\ UNCHANGED <<persisted, changeIndex, regVars, settings, loaded, lifecycle, installed, hotkeys, onloadAt,
                   eventVars, leafVars>>

\* the name under which the completion of a save is recorded
SavedAs(by) ==
    CASE by = "onSettingsChange" -> "save-done"
      [] by = "updateSettings" -> "update-saved"
      [] by = "saveSettings" -> "settings-saved"

\* a save has completed; the one of onSettingsChange goes on with forceRefresh
\* on every manager now in the index, the one of updateSettings just returns
SaveDone ==
    /\ \E i \in 1..Len(saving) :
        /\ persisted' = saving[i].data
        /\ changeIndex' = saving[i].index
        /\ saving' = RemoveAt(saving, i)
        /\ out' = IF saving[i].refresh THEN ForceRefreshAll(stateManagers) ELSE <<>>
        /\ op' = Op(SavedAs(saving[i].by), <<>>)
    /\ UNCHANGED <<regVars, settings, loaded, lifecycle, installed, hotkeys, onloadAt, eventVars, leafVars>>

\* ------------------------------------------------------------------------
\* Commands on the active database view
\* ------------------------------------------------------------------------
Commands ==
    {"active-database-folder-go-next-page", "active-database-folder-go-previous-page",
     "active-database-folder-add-new-row", "active-database-folder-open-settings",
     "active-database-folder-toggle-filters", "active-database-folder-open-filters"}

\* the method of the active view each command calls
CommandAction(id) ==
    CASE id = "active-database-folder-go-next-page" -> "goNextPage"
      [] id = "active-database-folder-go-previous-page" -> "goPreviousPage"
      [] id = "active-database-folder-add-new-row" -> "addNewRow"
      [] id = "active-database-folder-open-settings" -> "settingsAction"
      [] id = "active-database-folder-toggle-filters" -> "toggleFilters"
      [] id = "active-database-folder-open-filters" -> "openFilters"

Return(value) == Ev("return", <<>>, <<value>>, 0)

\* a checkCallback that runs the view action also when it is only asked to check
checkCallback_Always(id, checking, activeView) ==
    IF activeView = NoView THEN <<Return("false")>>
    ELSE <<Ev(CommandAction(id), <<activeView>>, <<>>, 0), Return("undefined")>>

\* checkCallback: (checking) => { if (!activeView) return false;
\*                                 if (checking) return true; activeView.action(); }
checkCallback(id, checking, activeView) ==
    IF activeView = NoView THEN <<Return("false")>>
    ELSE IF checking = "check" THEN <<Return("true")>>
    ELSE <<Ev(CommandAction(id), <<activeView>>, <<>>, 0), Return("undefined")>>

\* the command palette checks or runs a command; activeView is what
\* app.workspace.getActiveViewOfType(DatabaseView) returns
Command(id, checking, activeView) ==
    /\ installed
    /\ out' = checkCallback(id, checking, activeView)
    /\ op' = Op("command", <<id, checking, activeView>>)
    /\ UNCHANGED <<saveVars, regVars, settings, loaded, lifecycle, installed, hotkeys, onloadAt, eventVars, leafVars>>

\* a command of the host or of another plugin
OtherCommand == "other-command"

\* the wrapper around app.commands.executeCommand: the active database view,
\* if any, is told the id of the command, then the original method runs
executeCommand(patch, id, activeView) ==
    (IF patch = "patched" /\ activeView # NoView
     THEN <<Ev("emit", <<activeView>>, <<"hotkey", id>>, 0)>> ELSE <<>>)
        \o (IF id \in Commands THEN checkCallback(id, "run", activeView)
            ELSE <<Ev("next", <<>>, <<id>>, 0)>>)

\* the host runs a command (hotkey, palette, ribbon) through
\* app.commands.executeCommand; the plugin's own commands exist while registered
ExecuteCommand(id, activeView) ==
    /\ id \in Commands => installed
    /\ out' = executeCommand(hotkeys, id, activeView)
    /\ op' = Op("executeCommand", <<id, activeView>>)
    /\ UNCHANGED <<saveVars, regVars, settings, loaded, lifecycle, installed, hotkeys, onloadAt, eventVars, leafVars>>

\* ------------------------------------------------------------------------
\* Leaf actions
\* ------------------------------------------------------------------------
RequestsOf ==
    {Request(MARKDOWN, f, "pop") : f \in Files \cup {NoFile}}
        \cup {Request(FRONTMATTER_KEY, f, "pop") : f \in Files}
        \cup {Request(EMPTY, NoFile, "nopop")}

\* the host (or any caller) asks a leaf for a view state
SetViewState(l, req, kind) ==
    /\ installed
    /\ leaves[l].attached
    /\ LET M == InterceptSetViewState(LeafState, l, req, kind)
       IN CommitLeaves(IF req.type = MARKDOWN THEN M ELSE Release(M, l))
    /\ op' = Op("setViewState", <<l, req.type, req.file, req.popstate, kind>>)
    /\ UNCHANGED <<saveVars, regVars, settings, loaded, lifecycle, installed, hotkeys, onloadAt, eventVars>>

Detach(l) ==
    /\ installed
    /\ leaves[l].attached
    /\ LET M == InterceptDetach(LeafState, l)
       IN CommitLeaves(Release([M EXCEPT !.marked = @ \ {l}], l))
    /\ op' = Op("detach", <<l>>)
    /\ UNCHANGED <<saveVars, regVars, settings, loaded, lifecycle, installed, hotkeys, onloadAt, eventVars>>

\* the sources a "file-menu" event can name
Sources == {"sidebar-context-menu", "pane-more-options", "link-context-menu"}

\* views.some((view) => view.file === file): the first view of the file, if any
FirstViewOf(views, file) ==
    IF \E i \in 1..Len(views) : ViewFile(views[i]) = file
    THEN views[CHOOSE i \in 1..Len(views) :
                    /\ ViewFile(views[i]) = file
                    /\ \A j \in 1..(i - 1) : ViewFile(views[j]) # file]
    ELSE NoView

\* the "file-menu" handler: the item it adds to the menu and the calls it
\* makes. isDb is what isDatabaseNote(file) answers, win the window of the
\* leaf's view (getParentWindow), platform tells Platform.isMobile
fileMenu(reg, ls, l, file, source, isDb, win, platform) ==
    IF file = Folder THEN [item |-> "create", out |-> <<>>]
    ELSE LET sidebar == /\ platform # "mobile"
                        /\ l # NoLeaf
                        /\ source = "sidebar-context-menu"
                        /\ isDb = "db"
             v == FirstViewOf(getDatabaseViews(reg, win), file)
             pane == /\ l # NoLeaf
                     /\ ls[l].type = MARKDOWN
                     /\ source = "pane-more-options"
                     /\ isDb = "db"
         IN IF sidebar /\ v = NoView THEN [item |-> "open", out |-> <<>>]
            ELSE [item |-> IF pane THEN "open" ELSE "none",
                  out |-> IF sidebar THEN <<Ev("onPaneMenu", <<v>>, <<>>, 0)>> ELSE <<>>]

\* onClick of "open as database": the choice is recorded under
\* leaf.id || file.path, then setDatabaseView(leaf) asks the leaf for the
\* database view of whatever it shows; the request is not of type markdown, so
\* the cache is not read
openAsDatabase(M, l, file) ==
    LET k == ModeKey(l, file)
        M1 == [M EXCEPT !.modes = MapSet(@, k, FRONTMATTER_KEY),
                        !.recorder = MapSet(@, k, l),
                        !.marked = @ \ {l}]
    IN setDatabaseView(M1, l, "nocache")

\* workspace "file-menu" for file on leaf l: the handler adds its item, if any,
\* to the menu that opens (a new menu each time) and returns; the item keeps
\* the leaf and the file of the event
FileMenu(l, file, source, isDb, win, platform) ==
    /\ installed
    /\ l # NoLeaf => leaves[l].attached
    /\ LET r == fileMenu(windowRegistry, leaves, l, file, source, isDb, win, platform)
       IN CommitLeaves([LeafState EXCEPT
            !.out = r.out,
            !.menu = IF r.item = "none" THEN <<>>
                     ELSE <<[item |-> r.item, leaf |-> l, file |-> file]>>])
    /\ op' = Op("file-menu", <<l, file, source, isDb, win, platform>>)
    /\ UNCHANGED <<saveVars, regVars, settings, loaded, lifecycle, installed, hotkeys, onloadAt, eventVars>>

\* the user clicks the plugin's item, in a later turn of the event loop: its
\* onClick runs on the leaf and file it kept, whatever has happened to the
\* leaf and to the plugin since the menu opened
MenuClick ==
    /\ menu # <<>>
    /\ LET it == menu[1]
           detached == it.item = "open" /\ ~leaves[it.leaf].attached
       IN \E reattach \in (IF detached THEN BOOLEAN ELSE {FALSE}) :
          LET M == [LeafState EXCEPT !.menu = <<>>, !.reattach = reattach]
          IN /\ CommitLeaves(
                    IF it.item = "create"
                    THEN [M EXCEPT !.out = Append(@, Ev("generateNewDatabase", <<it.file>>, <<>>, 0))]
                    ELSE Release(openAsDatabase(M, it.leaf, it.file), it.leaf))
             /\ op' = Op("menu-click", <<it.item, it.leaf, it.file,
                                         IF reattach THEN "reattached" ELSE "asis">>)
    /\ UNCHANGED <<saveVars, regVars, settings, loaded, lifecycle, installed, hotkeys, onloadAt, eventVars>>

\* the user closes the menu without clicking the plugin's item
MenuClose ==
    /\ menu # <<>>
    /\ CommitLeaves([LeafState EXCEPT !.menu = <<>>])
    /\ op' = Op("menu-close", <<>>)
    /\ UNCHANGED <<saveVars, regVars, settings, loaded, lifecycle, installed, hotkeys, onloadAt, eventVars>>

\* the database view's "open as markdown": record the choice, then setMarkdownView(leaf)
MarkMarkdown(l, kind) ==
    /\ installed
    /\ leaves[l].attached
    /\ leaves[l].type = FRONTMATTER_KEY
    /\ LET k == ModeKey(l, leaves[l].file)
           M == [LeafState EXCEPT !.modes = MapSet(@, k, MARKDOWN),
                                  !.recorder = MapSet(@, k, l),
                                  !.marked = @ \cup {l}]
       IN CommitLeaves(setMarkdownView(M, l, kind))
    /\ op' = Op("markMarkdown", <<l, kind>>)
    /\ UNCHANGED <<saveVars, regVars, settings, loaded, lifecycle, installed, hotkeys, onloadAt, eventVars>>

\* ------------------------------------------------------------------------
\* Unload
\* ------------------------------------------------------------------------
\* unload(): every database leaf is marked and asked for markdown, at once;
\* super.unload() waits for Promise.all over the requests
Unload ==
    /\ lifecycle = "running"
    /\ \E cache \in [Files -> CacheKinds] :
        LET ls == getLeavesOfType(leaves, FRONTMATTER_KEY) IN
        /\ CommitLeaves([UnloadLeaves(LeafState, ls, cache)
                            EXCEPT !.setBack = [l \in Range(ls) |-> "held"]])
        /\ lifecycle' = IF ls = <<>> THEN "unloading" ELSE "awaiting"
    /\ op' = Op("unload", <<>>)
    /\ UNCHANGED <<saveVars, regVars, settings, loaded, installed, hotkeys, onloadAt, eventVars>>

\* what becomes of Promise.all(...).then(...) once every request has settled:
\* the callback is due if all of them resolved, and is dropped if one rejected
Settled(ok) == IF ok THEN "unloading" ELSE "stuck"

\* the setViewState promises of unload() have settled, all resolved or not
ViewStatesSettled(ok) ==
    /\ lifecycle = "awaiting"
    /\ lifecycle' = Settled(ok)
    /\ op' = Op("settled", <<IF ok THEN "resolved" ELSE "rejected">>)
    /\ out' = <<>>
    /\ UNCHANGED <<saveVars, regVars, settings, loaded, installed, hotkeys, onloadAt, eventVars, leafVars>>

\* .then(() => super.unload()): _loaded is cleared, onunload() runs, the registered
\* events and patches are removed
SuperUnloadWith(bad) ==
    /\ lifecycle = "unloading"
    /\ loaded' = FALSE
    /\ installed' = FALSE
    /\ hotkeys' = IF hotkeys = "patched" THEN "none" ELSE hotkeys
    /\ lifecycle' = "unloaded"
    /\ LET S == onunload(RegStateWith(bad)) IN
        /\ Commit(S)
        /\ databaseFileModes' = IF Thrown(S) THEN databaseFileModes ELSE EmptyMap
        /\ recorder' = IF Thrown(S) THEN recorder ELSE EmptyMap
    /\ listeners' = 0
    /\ op' = Op("super.unload", <<>>)
    /\ UNCHANGED <<saveVars, settings, onloadAt, timers, reloading, pendingAuto, leaves, marked,
                   menu, setBack, leafIds>>

SuperUnload == SuperUnloadWith({})

\* ------------------------------------------------------------------------
\* Specifications
\* ------------------------------------------------------------------------
\* load(), with loadData() answering one of the given blobs
LoadStep(blobs, readies) ==
    \/ Load
    \/ \E blob \in blobs : SettingsLoaded(blob)
    \/ \E ready \in readies : Onload(ready)

RegistryStep ==
    \/ \E w \in Windows : Mount(w)
    \/ \E w \in Windows : Unmount(w)
    \/ \E v \in Views, w \in Windows : AddView(v, w)
    \/ \E v \in Views : RemoveView(v)
    \/ \E w \in Windows, r \in Receivers : Subscribe(w, r)

\* the Dataview events about the given files, with one of the given views active
EventStepFor(files, views) ==
    \/ \E av \in views \cup {NoView} : IndexReady(av)
    \/ ReloadDone
    \/ TimerFire
    \/ \E f \in files, av \in views \cup {NoView} : MetadataChange(f, av)

EventStep == EventStepFor(Files, Views)

\* every file-menu event, and what the user does with the menu
MenuStep ==
    \/ \E l \in Leaves \cup {NoLeaf}, file \in Files \cup {Folder}, source \in Sources,
          isDb \in {"db", "nodb"}, win \in Windows, platform \in {"desktop", "mobile"} :
            FileMenu(l, file, source, isDb, win, platform)
    \/ MenuClick
    \/ MenuClose

\* the menu of a database note on the given leaves, in the main window of a
\* desktop, and the click on the plugin's item
MenuClicks(ls) ==
    \/ \E l \in ls, source \in {"sidebar-context-menu", "pane-more-options"} :
            FileMenu(l, "f1", source, "db", MainWindow, "desktop")
    \/ MenuClick

\* the cache outcomes told apart for a request: all of them for a markdown
\* request with a file, one for the requests that never reach the cache
KindsFor(req) ==
    IF req.type = MARKDOWN /\ req.file # NoFile THEN CacheKinds ELSE {"nocache"}

LeafStep ==
    \/ \E l \in Leaves, req \in RequestsOf, kind \in CacheKinds : SetViewState(l, req, kind)
    \/ \E l \in Leaves : Detach(l)
    \/ MenuStep
    \/ \E l \in Leaves, kind \in CacheKinds : MarkMarkdown(l, kind)

SettingsStep ==
    \/ \E newSettings \in SettingsChoices : SettingsChange(newSettings)
    \/ \E partial \in Partials : UpdateSettings(partial)
    \/ SaveSettings
    \/ SaveDone

CommandStep ==
    \/ \E id \in Commands, checking \in {"check", "run"}, av \in Views \cup {NoView} :
            Command(id, checking, av)
    \/ \E id \in Commands \cup {OtherCommand}, av \in Views \cup {NoView} :
            ExecuteCommand(id, av)
    \/ LayoutReady

Next ==
    \/ LoadStep(Blobs, BOOLEAN)
    \/ RegistryStep
    \/ EventStep
    \/ SettingsStep
    \/ CommandStep
    \/ LeafStep
    \/ Unload
    \/ \E ok \in BOOLEAN : ViewStatesSettled(ok)
    \/ SuperUnload
Spec == Init /\ [][Next]_vars

\* the window registry and the StateManager index
NextRegistry ==
    \/ LoadStep({EmptyMap}, {TRUE})
    \/ \E w \in Windows : Mount(w)
    \/ \E w \in Windows : Unmount(w)
    \/ \E v \in Views, w \in Windows : AddView(v, w)
    \/ \E v \in Views : RemoveView(v)
    \/ Subscribe(MainWindow, "r1")
SpecRegistry == InitWith({TRUE}) /\ [][NextRegistry]_vars

\* the requests of the leaf specification: every request about f1 or about no
\* file, read with every outcome of the cache
RequestsLeaves == {r \in RequestsOf : r.file # "f2"}

\* the leaf interceptors and the load / unload sequence, without registry traffic
NextLeaves ==
    \/ LoadStep({EmptyMap}, {TRUE})
    \/ \E l \in Leaves, req \in RequestsLeaves :
            \E kind \in KindsFor(req) : SetViewState(l, req, kind)
    \/ \E l \in Leaves : Detach(l)
    \/ MenuClicks({"l1"})
    \/ \E l \in Leaves : MarkMarkdown(l, "marker")
    \/ Unload
    \/ \E ok \in BOOLEAN : ViewStatesSettled(ok)
    \/ SuperUnload
SpecLeaves == Init /\ [][NextLeaves]_vars

\* the registry together with the Dataview events, for the views of one file
EventViews == {v \in Views : ViewFile(v) = "f1"}
NextEvents ==
    \/ LoadStep({EmptyMap}, {TRUE})
    \/ \E w \in Windows : Mount(w)
    \/ \E w \in Windows : Unmount(w)
    \/ \E v \in EventViews, w \in Windows : AddView(v, w)
    \/ \E v \in EventViews : RemoveView(v)
    \/ EventStep
SpecEvents == InitWith({TRUE}) /\ [][NextEvents]_vars

\* the same, with every view registered in one window at a time
AddViewOnce(v, w) == ~(\E i \in 1..Len(windowRegistry) : SeqHas(windowRegistry[i].viewMap, v)) /\ AddView(v, w)
NextFanOut ==
    \/ LoadStep({EmptyMap}, {TRUE})
    \/ \E w \in Windows : Mount(w)
    \/ \E w \in Windows : Unmount(w)
    \/ \E v \in EventViews, w \in Windows : AddViewOnce(v, w)
    \/ \E v \in EventViews : RemoveView(v)
    \/ EventStep
SpecFanOut == InitWith({TRUE}) /\ [][NextFanOut]_vars

\* load from any blob, settings changes and their saves, a view of each file
\* coming and going
NextSettings ==
    \/ LoadStep(Blobs, {TRUE})
    \/ \E v \in {"v1", "v3"} : AddViewOnce(v, MainWindow)
    \/ \E v \in {"v1", "v3"} : RemoveView(v)
    \/ SettingsStep
SpecSettings == InitWith({TRUE}) /\ [][NextSettings]_vars

\* the two operations that change the settings and the completions of their
\* saves, after a load of the defaults, a view of each file coming and going
NextSaves ==
    \/ LoadStep({EmptyMap}, {TRUE})
    \/ \E v \in {"v1", "v3"} : AddViewOnce(v, MainWindow)
    \/ \E v \in {"v1", "v3"} : RemoveView(v)
    \/ \E newSettings \in SettingsChoices : SettingsChange(newSettings)
    \/ \E partial \in Partials : UpdateSettings(partial)
    \/ SaveDone
SpecSaves == InitWith({TRUE}) /\ [][NextSaves]_vars

\* the delayed subscription, with settings changing under it
NextSubscription ==
    \/ LoadStep(Blobs, {TRUE})
    \/ AddViewOnce("v1", MainWindow)
    \/ \E newSettings \in SettingsChoices : SettingsChange(newSettings)
    \/ SaveDone
    \/ EventStepFor({"f1"}, {"v1"})
SpecSubscription == InitWith({TRUE}) /\ [][NextSubscription]_vars

\* unload from a populated state: windows, views, receivers, recorded modes
NextUnload ==
    \/ LoadStep({EmptyMap}, {TRUE})
    \/ \E w \in Windows : Mount(w)
    \/ \E v \in Views, w \in Windows : AddView(v, w)
    \/ \E w \in Windows, r \in Receivers : Subscribe(w, r)
    \/ SetViewState("l1", Request(MARKDOWN, "f1", "pop"), "marker")
    \/ Unload
    \/ \E ok \in BOOLEAN : ViewStatesSettled(ok)
    \/ \E bad \in SUBSET Views : SuperUnloadWith(bad)
SpecUnload == InitWith({TRUE}) /\ [][NextUnload]_vars

\* load, leaves turning into database views, unload: every batch of view-state
\* requests settles in the end, and a callback that is due runs in the end
NextShutdown ==
    \/ LoadStep({EmptyMap}, {TRUE})
    \/ \E l \in Leaves, f \in Files : SetViewState(l, Request(MARKDOWN, f, "pop"), "marker")
    \/ \E l \in Leaves : SetViewState(l, Request(EMPTY, NoFile, "nopop"), "nocache")
    \/ Unload
    \/ \E ok \in BOOLEAN : ViewStatesSettled(ok)
    \/ SuperUnload
SpecShutdown ==
    /\ InitWith({TRUE})
    /\ [][NextShutdown]_vars
    /\ WF_vars(\E ok \in BOOLEAN : ViewStatesSettled(ok))
    /\ WF_vars(SuperUnload)

\* the commands, with database views open in one or two windows
NextCommands ==
    \/ LoadStep({EmptyMap}, BOOLEAN)
    \/ \E w \in Windows : Mount(w)
    \/ \E v \in Views, w \in Windows : AddViewOnce(v, w)
    \/ \E v \in Views : RemoveView(v)
    \/ CommandStep
SpecCommands == InitWith({TRUE}) /\ [][NextCommands]_vars

\* the registry with views whose destroy() may throw, every view in one window
\* at a time
NextFaults ==
    \/ LoadStep({EmptyMap}, {TRUE})
    \/ \E w \in Windows : Mount(w)
    \/ \E v \in Views, w \in Windows : AddViewOnce(v, w)
    \/ \E v \in Views : RemoveView(v)
    \/ \E w \in Windows, r \in Receivers : Subscribe(w, r)
    \/ \E w \in Windows, bad \in SUBSET Views : UnmountWith(w, bad)
SpecFaults == InitWith({TRUE}) /\ [][NextFaults]_vars

\* ------------------------------------------------------------------------
\* Vocabulary of the properties
\* ------------------------------------------------------------------------
Entry(reg, w) == reg[RegIndex(reg, w)]
Registered(reg, w) == RegIndex(reg, w) # 0
InViewMap(reg, w, v) == Registered(reg, w) /\ SeqHas(Entry(reg, w).viewMap, v)
InSomeViewMap(reg, v) == \E i \in 1..Len(reg) : SeqHas(reg[i].viewMap, v)
Forward(l, type, file, popstate) == Ev("setViewState", <<l>>, <<type, file, popstate>>, 0)
Delivered(o, v) == Len(CallsTo(o, "handleExternalMetadataChange", <<v>>))
\* every receiver of window w (as subscribed in reg) was called once, with views
NotifiedOnce(o, reg, w, views) ==
    \A r \in Range(Entry(reg, w).viewStateReceivers) :
        CallsTo(o, "receiver", <<w, r>>) = <<Ev("receiver", <<w, r>>, views, 0)>>

\* ------------------------------------------------------------------------
\* C1  Single-manager invariant: every file that has a view in some registered
\*     window's viewMap has its (one) StateManager in the index.
\* ------------------------------------------------------------------------
C1_SingleManager ==
    \A v \in Views :
        InSomeViewMap(windowRegistry, v) => ViewFile(v) \in DOMAIN stateManagers

\* ------------------------------------------------------------------------
\* C2  Dispose-on-empty: the removeView that unregisters a manager's last view
\*     invokes the dispose callback exactly once and removes the manager; a
\*     manager leaves the index only that way; no manager stays without a view
\*     that is in some viewMap; a manager created afterwards is a new instance.
\* ------------------------------------------------------------------------
C2_Step ==
    \A f \in Files :
        /\ ( /\ op'.name = "removeView"
             /\ f \in DOMAIN stateManagers
             /\ stateManagers[f].viewSet = {op'.args[1]}
             /\ InSomeViewMap(windowRegistry, op'.args[1]) )
           => /\ f \notin DOMAIN stateManagers'
              /\ Calls(out', "dispose") = <<Ev("dispose", <<f>>, <<>>, stateManagers[f].id)>>
        /\ (f \in DOMAIN stateManagers /\ f \notin DOMAIN stateManagers')
           => Len(CallsTo(out', "dispose", <<f>>)) = 1
        /\ f \in DOMAIN stateManagers'
           => /\ \E v \in stateManagers'[f].viewSet :
                    ViewFile(v) = f /\ InSomeViewMap(windowRegistry', v)
              /\ \A e \in Range(Calls(out', "dispose")) : e.n # stateManagers'[f].id
        /\ (f \in DOMAIN stateManagers' /\ f \notin DOMAIN stateManagers)
           => /\ stateManagers'[f].id >= nextManager
              /\ \A g \in DOMAIN stateManagers : stateManagers[g].id < stateManagers'[f].id
              /\ nextManager' > stateManagers'[f].id

\* C2  Dispose-on-empty: every step of the registry disposes a manager exactly
\*     when its last view is removed, and a later addView creates a new one.
C2_DisposeOnEmpty == [][C2_Step]_vars

\* a removeView has just disposed the manager of its view's file
C2_Witness ==
    /\ op.name = "removeView"
    /\ Len(Calls(out, "dispose")) = 1
    /\ ViewFile(op.args[1]) \notin DOMAIN stateManagers
    /\ nextManager > 2

\* ------------------------------------------------------------------------
\* C3  Fan-out completeness: a metadata-change event the plugin listens to
\*     reaches every view of every viewMap exactly once.
\* ------------------------------------------------------------------------
C3_FanOutExactlyOnce ==
    (op.name = "metadata-change" /\ listeners > 0)
        => \A v \in Views : InSomeViewMap(windowRegistry, v) => Delivered(out, v) = 1

\* ------------------------------------------------------------------------
\* C4  Window isolation: unmount(A) leaves the registry entry of every other
\*     registered window B as it was.
\* ------------------------------------------------------------------------
C4_Step ==
    \A A \in Windows, B \in Windows :
        ( /\ A # B
          /\ op'.name = "unmount" /\ op'.args = <<A>>
          /\ Registered(windowRegistry, A)
          /\ Registered(windowRegistry, B) )
        => /\ Registered(windowRegistry', B)
           /\ Entry(windowRegistry', B) = Entry(windowRegistry, B)

\* C4  Window isolation: every unmount(A) leaves every other window's entry
\*     unchanged.
C4_WindowIsolation == [][C4_Step]_vars

\* ------------------------------------------------------------------------
\* C5  Mode-override persistence: while a leaf is marked "markdown" (marked and
\*     neither detached nor re-forced since), every markdown request for it is
\*     forwarded as it came, whatever happened to other leaves in between.
\* ------------------------------------------------------------------------
C5_Step ==
    \A l \in Leaves :
        /\ ( /\ l \in marked
             /\ op'.name = "setViewState"
             /\ op'.args[1] = l
             /\ op'.args[2] = MARKDOWN )
           => out' = <<Forward(l, MARKDOWN, op'.args[3], op'.args[4])>>
        /\ (op'.name = "markMarkdown" /\ op'.args[1] = l)
           => out' = <<Forward(l, MARKDOWN, leaves[l].file, "pop")>>

C6_Step ==
    \A l \in Leaves :
        (op'.name = "setViewState" /\ op'.args[1] = l) =>
            LET type == op'.args[2]
                file == op'.args[3]
                pop == op'.args[4]
                kind == op'.args[5]
                promote == /\ loaded
                           /\ type = MARKDOWN
                           /\ file # NoFile
                           /\ MapGet(databaseFileModes, ModeKey(l, file), "absent") # MARKDOWN
                           /\ kind = "marker"
            IN IF promote
               THEN /\ out' = <<Forward(l, FRONTMATTER_KEY, file, pop)>>
                    /\ MapGet(databaseFileModes', ModeKey(l, file), "absent") = FRONTMATTER_KEY
               ELSE /\ out' = <<Forward(l, type, file, pop)>>
                    /\ databaseFileModes' = databaseFileModes

\* C6  Auto-promotion: every eligible markdown request is rewritten to the
\*     database type and recorded for its leaf; every other one is untouched.
C6_AutoPromotion == [][C6_Step]_vars

\* ------------------------------------------------------------------------
\* C7  Two-window scenario: a metadata-change event reaches every view of every
\*     viewMap; and with view v1 in window A and view v2 of the same file in
\*     window B, both observing the file's manager, unmount(A) leaves v2 in B's
\*     viewMap and the same manager instance in the index with v2 still
\*     registered.
\* ------------------------------------------------------------------------
C7_Step ==
    /\ (op'.name = "metadata-change" /\ listeners > 0)
        => \A v \in Views : InSomeViewMap(windowRegistry', v) => Delivered(out', v) >= 1
    /\ op'.name = "unmount" =>
        \A A \in Windows, B \in Windows, v1 \in Views, v2 \in Views :
        LET f == ViewFile(v1) IN
        ( /\ op'.args = <<A>>
          /\ A # B /\ v1 # v2 /\ ViewFile(v2) = f
          /\ InViewMap(windowRegistry, A, v1)
          /\ InViewMap(windowRegistry, B, v2)
          /\ ~InViewMap(windowRegistry, A, v2)
          /\ f \in DOMAIN stateManagers
          /\ {v1, v2} \subseteq stateManagers[f].viewSet )
        => /\ InViewMap(windowRegistry', B, v2)
           /\ f \in DOMAIN stateManagers'
           /\ stateManagers'[f].id = stateManagers[f].id
           /\ v2 \in stateManagers'[f].viewSet

\* C7  Two-window scenario: every unmount of the window of v1 keeps v2, its
\*     window and their shared manager.
C7_TwoWindows == [][C7_Step]_vars

\* window A was just closed and destroyed its view of f1, while another view of
\* f1 is still in the other window's viewMap, observing the same manager
C7_Witness ==
    /\ op.name = "unmount"
    /\ Len(Calls(out, "destroy")) >= 1
    /\ listeners > 0
    /\ "f1" \in DOMAIN stateManagers
    /\ \E B \in Windows \ {op.args[1]}, v2 \in EventViews :
            /\ InViewMap(windowRegistry, B, v2)
            /\ v2 \in stateManagers["f1"].viewSet
            /\ \E e \in Range(Calls(out, "destroy")) :
                    e.target # <<v2>> /\ ViewFile(e.target[1]) = "f1"

\* ------------------------------------------------------------------------
\* C8  Override cleanup on detach: a detach invokes the original detach exactly
\*     once, and no entry of databaseFileModes that was recorded for a leaf
\*     (by a user's choice or by a promotion) outlives that leaf's detach.
\* ------------------------------------------------------------------------
C8_OverrideCleanup ==
    /\ op.name = "detach" => out = <<Ev("detach", <<op.args[1]>>, <<>>, 0)>>
    /\ \A k \in DOMAIN databaseFileModes : leaves[recorder[k]].attached

\* ------------------------------------------------------------------------
\* C9  No promotion during shutdown: unload asks every database leaf of the
\*     workspace for markdown and each of these requests is forwarded as it
\*     is; from then on, through the whole shutdown sequence and at its end,
\*     every such leaf that has been neither detached nor explicitly asked
\*     for another view type is a markdown view, and every markdown request on
\*     it is forwarded as it is; super.unload() issues no request and changes
\*     no leaf.
\* ------------------------------------------------------------------------
C9_Step ==
    /\ op'.name = "unload" =>
        /\ \A l \in Leaves :
            (leaves[l].attached /\ leaves[l].type = FRONTMATTER_KEY)
                => /\ CallsTo(out', "setViewState", <<l>>)
                        = <<Forward(l, MARKDOWN, leaves[l].file, "pop")>>
                   /\ leaves'[l].type = MARKDOWN
                   /\ l \in Held(setBack')
        /\ \A l \in Leaves : leaves'[l].attached => leaves'[l].type # FRONTMATTER_KEY
    /\ \A l \in Held(setBack') : leaves'[l].attached /\ leaves'[l].type = MARKDOWN
    /\ (op'.name = "setViewState" /\ op'.args[1] \in Held(setBack) /\ op'.args[2] = MARKDOWN)
        => out' = <<Forward(op'.args[1], MARKDOWN, op'.args[3], op'.args[4])>>
    /\ op'.name = "super.unload" =>
        /\ Calls(out', "setViewState") = <<>>
        /\ leaves' = leaves

C10_Step ==
    \A l \in Leaves :
        ( /\ op'.name = "setViewState"
          /\ op'.args[1] = l
          /\ op'.args[5] \in {"throws", "nocache", "nofrontmatter"} )
        => /\ out' = <<Forward(l, op'.args[2], op'.args[3], op'.args[4])>>
           /\ databaseFileModes' = databaseFileModes
           /\ leaves'[l].type = op'.args[2]

\* C10 Fail-open interception: every intercepted request whose cache read
\*     fails or finds no cache or no frontmatter is forwarded unchanged, with
\*     nothing recorded and nothing thrown.
C10_FailOpen == [][C10_Step]_vars

\* ------------------------------------------------------------------------
\* C11 Destroy failures are isolated: whatever destroy() throws, unmount(w)
\*     calls destroy on every view of w's viewMap, removes w's render root and
\*     deletes w's registry entry (and with it its viewMap and receivers).
\* ------------------------------------------------------------------------
C11_Step ==
    \A w \in Windows :
        ( /\ op'.name = "unmount" /\ op'.args = <<w>>
          /\ Registered(windowRegistry, w) )
        => /\ \A v \in Range(Entry(windowRegistry, w).viewMap) :
                    Len(CallsTo(out', "destroy", <<v>>)) >= 1
           /\ ~Registered(windowRegistry', w)
           /\ \A e \in dom' : e[1] # w

\* C11 Destroy failures are isolated: every unmount destroys all the views of
\*     its window and removes the window's entry and root, even when a destroy
\*     throws.
C11_DestroyFailuresIsolated == [][C11_Step]_vars

\* ------------------------------------------------------------------------
\* C12 mount and unmount are idempotent: mount on a window that has an entry
\*     changes nothing and creates no root; mount on a window without entry
\*     appends an entry with empty viewMap and receivers and one new root;
\*     unmount on a window without entry changes nothing; after unmount the
\*     window has no entry, and a second unmount adds nothing to the first.
\* ------------------------------------------------------------------------
C12_Step ==
    \A w \in Windows :
        /\ (op'.name = "mount" /\ op'.args = <<w>> /\ Registered(windowRegistry, w))
            => /\ regVars' = regVars
               /\ out' = <<>>
        /\ (op'.name = "mount" /\ op'.args = <<w>> /\ ~Registered(windowRegistry, w))
            => /\ Len(windowRegistry') = Len(windowRegistry) + 1
               /\ SubSeq(windowRegistry', 1, Len(windowRegistry)) = windowRegistry
               /\ LET e == windowRegistry'[Len(windowRegistry')] IN
                    /\ e.win = w
                    /\ e.viewMap = <<>>
                    /\ e.viewStateReceivers = <<>>
                    /\ <<w, e.appRoot>> \notin dom
                    /\ dom' = dom \cup {<<w, e.appRoot>>}
               /\ stateManagers' = stateManagers
        /\ (op'.name = "unmount" /\ op'.args = <<w>> /\ ~Registered(windowRegistry, w))
            => /\ regVars' = regVars
               /\ out' = <<>>
        /\ (op'.name = "unmount" /\ op'.args = <<w>>)
            => /\ ~Registered(windowRegistry', w)
               /\ unmount(RegState, w)' = RegState'
        /\ (op'.name = "mount" /\ op'.args = <<w>>)
            => mount(RegState, w)' = RegState'

\* C12 mount and unmount are idempotent: every mount and unmount step behaves
\*     as above, and repeating it right away changes nothing more.
C12_MountUnmountIdempotent == [][C12_Step]_vars

\* mount was called for a window that already had views and a receiver, and
\* left them in place
C12_Witness ==
    /\ op.name = "mount"
    /\ Registered(windowRegistry, op.args[1])
    /\ Entry(windowRegistry, op.args[1]).viewMap # <<>>
    /\ Entry(windowRegistry, op.args[1]).viewStateReceivers # <<>>

\* ------------------------------------------------------------------------
\* C13 Membership notification: an addView whose window has an entry, and a
\*     removeView whose view is in some viewMap, add / delete the view id in
\*     the owning window's viewMap and then call every receiver of that window
\*     exactly once with the viewMap's new contents, whether or not the index
\*     holds a manager for the view's file.
\* ------------------------------------------------------------------------
C13_Step ==
    /\ \A v \in Views, w \in Windows :
        ( /\ op'.name = "addView" /\ op'.args = <<v, w>>
          /\ Registered(windowRegistry, w) )
        => /\ Entry(windowRegistry', w).viewMap =
                    IF SeqHas(Entry(windowRegistry, w).viewMap, v)
                    THEN Entry(windowRegistry, w).viewMap
                    ELSE Append(Entry(windowRegistry, w).viewMap, v)
           /\ NotifiedOnce(out', windowRegistry, w, Entry(windowRegistry', w).viewMap)
    /\ \A v \in Views :
        ( /\ op'.name = "removeView" /\ op'.args = <<v>>
          /\ InSomeViewMap(windowRegistry, v) )
        => LET w == windowRegistry[OwnerIndex(windowRegistry, v)].win IN
           /\ Entry(windowRegistry', w).viewMap = SeqDelete(Entry(windowRegistry, w).viewMap, v)
           /\ NotifiedOnce(out', windowRegistry, w, Entry(windowRegistry', w).viewMap)

\* C13 Membership notification: every addView and removeView that finds the
\*     owning window updates its viewMap and notifies each of its receivers
\*     once with the new view list.
C13_MembershipNotification == [][C13_Step]_vars

\* ------------------------------------------------------------------------
\* C14 Stale references are no-ops: addView for a window without entry and
\*     removeView for a view in no viewMap throw nothing, call no receiver and
\*     leave the registry, the index and every observer set as they were.
\* ------------------------------------------------------------------------
C14_Step ==
    /\ \A v \in Views, w \in Windows :
        ( /\ op'.name = "addView" /\ op'.args = <<v, w>>
          /\ ~Registered(windowRegistry, w) )
        => /\ out' = <<>>
           /\ regVars' = regVars
    /\ \A v \in Views :
        ( /\ op'.name = "removeView" /\ op'.args = <<v>>
          /\ ~InSomeViewMap(windowRegistry, v) )
        => /\ out' = <<>>
           /\ regVars' = regVars

\* C14 Stale references are no-ops: every addView without a window entry and
\*     every removeView of an unregistered view has no effect at all.
C14_StaleReferences == [][C14_Step]_vars

\* addView was called for a view whose window had been closed, while a window
\* with a receiver and a manager with observers exist, and nothing happened
C14_Witness ==
    /\ op.name = "addView"
    /\ ~Registered(windowRegistry, op.args[2])
    /\ out = <<>>
    /\ \E f \in DOMAIN stateManagers : stateManagers[f].viewSet # {}
    /\ \E i \in 1..Len(windowRegistry) :
            windowRegistry[i].viewStateReceivers # <<>> /\ windowRegistry[i].viewMap # <<>>

\* ------------------------------------------------------------------------
\* C15 Command routing: each of the six active-view commands returns false and
\*     calls nothing when there is no active database view; returns true and
\*     calls nothing when it is only checked; otherwise calls its own action,
\*     once, on the active view and on no other view. A command run through
\*     app.commands.executeCommand does the same, after the wrapper has told
\*     the active view, and no other view, the command's id.
\* ------------------------------------------------------------------------
C15_Expected ==
    {<<"active-database-folder-go-next-page", "goNextPage">>,
     <<"active-database-folder-go-previous-page", "goPreviousPage">>,
     <<"active-database-folder-add-new-row", "addNewRow">>,
     <<"active-database-folder-open-settings", "settingsAction">>,
     <<"active-database-folder-toggle-filters", "toggleFilters">>,
     <<"active-database-folder-open-filters", "openFilters">>}

C15_Step ==
    /\ op'.name = "command" =>
        LET id == op'.args[1]
            checking == op'.args[2]
            av == op'.args[3]
            acts == SelectSeq(out', LAMBDA e : e.call # "return")
        IN /\ \E x \in C15_Expected : x[1] = id
           /\ av = NoView => out' = <<Return("false")>>
           /\ (av # NoView /\ checking = "check") => out' = <<Return("true")>>
           /\ (av # NoView /\ checking = "run") =>
                \E x \in C15_Expected :
                    x[1] = id /\ acts = <<Ev(x[2], <<av>>, <<>>, 0)>>
           /\ regVars' = regVars
    /\ (op'.name = "executeCommand" /\ op'.args[1] \in {x[1] : x \in C15_Expected}) =>
        LET cmd == op'.args[1]
            active == op'.args[2]
            done == SelectSeq(out', LAMBDA e : e.call \notin {"return", "emit"})
        IN /\ active = NoView => out' = <<Return("false")>>
           /\ active # NoView =>
                \E x \in C15_Expected :
                    x[1] = cmd /\ done = <<Ev(x[2], <<active>>, <<>>, 0)>>
           /\ \A e \in Range(out') : e.target \in {<<>>, <<active>>}
           /\ regVars' = regVars

\* C15 Command routing: every command step reports unavailable without an active
\*     database view, available when checked, and otherwise runs exactly its
\*     own action once on the active view.
C15_CommandRouting == [][C15_Step]_vars

\* a command was run on the active view while another view of the same file is
\* open in another window, and only the active view was called
C15_Witness ==
    /\ op.name = "command"
    /\ op.args[2] = "run"
    /\ op.args[3] # NoView
    /\ \E e \in Range(out) : e.call # "return" /\ e.target = <<op.args[3]>>
    /\ \E A \in Windows, B \in Windows, v \in Views :
            /\ A # B /\ v # op.args[3] /\ ViewFile(v) = ViewFile(op.args[3])
            /\ InViewMap(windowRegistry, A, op.args[3])
            /\ InViewMap(windowRegistry, B, v)

\* ------------------------------------------------------------------------
\* C16 Full clear on unload: when onunload completes, the window registry, the
\*     StateManager index and databaseFileModes are empty, every view that was
\*     in a viewMap was destroyed, and every receiver of every window was
\*     called with an empty list before its window's root was removed.
\* ------------------------------------------------------------------------
C16_Step ==
    (op'.name = "super.unload" /\ Calls(out', "throw") = <<>>) =>
        /\ windowRegistry' = <<>>
        /\ stateManagers' = EmptyMap
        /\ databaseFileModes' = EmptyMap
        /\ \A v \in Views :
            InSomeViewMap(windowRegistry, v) => Len(CallsTo(out', "destroy", <<v>>)) >= 1
        /\ \A i \in 1..Len(windowRegistry) :
            LET w == windowRegistry[i].win IN
            /\ Len(CallsTo(out', "remove", <<w>>)) = 1
            /\ \A r \in Range(windowRegistry[i].viewStateReceivers) :
                \E k \in 1..Len(out') :
                    /\ out'[k] = Ev("receiver", <<w, r>>, <<>>, 0)
                    /\ \A n \in 1..k : out'[n].call # "remove" \/ out'[n].target # <<w>>

\* C16 Full clear on unload: every completed onunload leaves the registry, the
\*     index and databaseFileModes empty, having destroyed every view and told
\*     every receiver.
C16_FullClearOnUnload == [][C16_Step]_vars

\* onunload completed after unmounting two windows with views and receivers,
\* with mode entries recorded at unload
C16_Witness ==
    /\ op.name = "super.unload"
    /\ Calls(out, "throw") = <<>>
    /\ Len(Calls(out, "remove")) = 2
    /\ Len(Calls(out, "destroy")) >= 2
    /\ Len(Calls(out, "receiver")) >= 2
    /\ Len(Calls(out, "dispose")) = 2
    /\ marked # {}
    /\ windowRegistry = <<>> /\ stateManagers = EmptyMap /\ databaseFileModes = EmptyMap

\* ------------------------------------------------------------------------
\* C17 Settings load merges over defaults field by field: right after load,
\*     every field of every settings group has the value persisted for it if
\*     the blob holds that field, and its default value otherwise.
\* ------------------------------------------------------------------------
C17_FieldByFieldMerge ==
    op.name = "settings-loaded" =>
        \A g \in DOMAIN DEFAULT_SETTINGS :
            /\ g \in DOMAIN settings
            /\ \A x \in DOMAIN DEFAULT_SETTINGS[g] :
                /\ x \in DOMAIN settings[g]
                /\ settings[g][x] =
                        IF g \in DOMAIN persisted /\ x \in DOMAIN persisted[g]
                        THEN persisted[g][x]
                        ELSE DEFAULT_SETTINGS[g][x]

\* ------------------------------------------------------------------------
\* C18 Delayed subscription
\* ------------------------------------------------------------------------
\* what holds of the subscription whenever auto-update is read: no delivery
\* before a listener is registered; a listener is registered only by an
\* elapsed timer; index-ready with an active database view starts its reload
\* and no timer; a timer is started only by an index-ready without active view
\* or by the completion of a reload
C18_Common ==
    /\ (op'.name = "metadata-change" /\ listeners = 0)
        => Calls(out', "handleExternalMetadataChange") = <<>>
    /\ listeners' > listeners
        => /\ op'.name = "timer"
           /\ timers > 0
           /\ timers' = timers - 1
           /\ listeners' = listeners + 1
    /\ (op'.name = "index-ready" /\ op'.args # <<NoView>>)
        => /\ out' = <<Ev("reloadDatabase", op'.args, <<>>, 0)>>
           /\ reloading' = reloading + 1
           /\ timers' = timers
    /\ timers' > timers
        => /\ timers' = timers + 1
           /\ \/ op'.name = "index-ready" /\ op'.args = <<NoView>>
              \/ op'.name = "reload-done" /\ reloading > 0 /\ reloading' = reloading - 1

C18_Step ==
    /\ C18_Common
    /\ timers' > timers => AutoUpdateEnabled(settings)

\* C18 Delayed subscription: no view hears of a metadata-change event before
\*     index-ready fired and the delay elapsed; the reload of the active view
\*     completes before the timer is started; and the timer is started only
\*     if auto-update is enabled when the handler reaches that point, that is
\*     after the reload, if any, has completed.
C18_DelayedSubscription == [][C18_Step]_vars

C18_StepAsStated ==
    /\ C18_Common
    /\ (timers' > timers /\ op'.name = "index-ready") => AutoUpdateEnabled(settings)
    /\ (timers' > timers /\ op'.name = "reload-done")
        => \E i \in 1..Len(pendingAuto) :
                pendingAuto[i] /\ pendingAuto' = RemoveAt(pendingAuto, i)

\* C18 Delayed subscription, as stated: the same, but the timer is started only
\*     if auto-update was enabled when index-ready fired.
C18_AsStated == [][C18_StepAsStated]_vars

\* a metadata-change event came while the timer was still pending and a view
\* was registered: nobody was called
C18_Witness ==
    /\ op.name = "metadata-change"
    /\ listeners = 0
    /\ timers > 0
    /\ out = <<>>
    /\ \E v \in Views : InSomeViewMap(windowRegistry, v)

\* ------------------------------------------------------------------------
\* C19 A view belongs to exactly one window registry entry: every view id is
\*     a key of at most one window's viewMap, and right after removeView(view)
\*     of no window's viewMap.
\* ------------------------------------------------------------------------
C19_OneWindowPerView ==
    /\ \A v \in Views :
        Cardinality({i \in 1..Len(windowRegistry) : SeqHas(windowRegistry[i].viewMap, v)}) <= 1
    /\ op.name = "removeView" => ~InSomeViewMap(windowRegistry, op.args[1])

\* ------------------------------------------------------------------------
\* C20 Settings change ordering: a settings change made in the settings tab
\*     (onSettingsChange) makes the new settings what the managers' provider
\*     returns and hands them to one save, calling no manager yet; when that
\*     save completes the data is on disk and forceRefresh is called exactly
\*     once on each manager in the index at that moment and on nothing else.
\*     A change made through updateSettings is merged into the settings, which
\*     the provider returns at once, and handed to one save; when that save
\*     completes the data is on disk and no manager is called. forceRefresh
\*     is called at no other time.
\* ------------------------------------------------------------------------
C20_Step ==
    /\ op'.name = "settings-change"
        => /\ Len(saving') = Len(saving) + 1
           /\ SubSeq(saving', 1, Len(saving)) = saving
           /\ getGlobalSettings' = saving'[Len(saving')].data
           /\ out' = <<Ev("saveData", <<>>, <<>>, 0)>>
           /\ persisted' = persisted
    /\ op'.name = "save-done"
        => /\ \E i \in 1..Len(saving) :
                /\ saving[i].refresh
                /\ saving' = RemoveAt(saving, i)
                /\ persisted' = saving[i].data
           /\ stateManagers' = stateManagers
           /\ \A f \in Files :
                CallsTo(out', "forceRefresh", <<f>>) =
                    IF f \in DOMAIN stateManagers'
                    THEN <<Ev("forceRefresh", <<f>>, <<>>, stateManagers'[f].id)>>
                    ELSE <<>>
           /\ Len(out') = Cardinality(DOMAIN stateManagers')
    /\ (op'.name = "updateSettings" /\ settings # Undefined)
        => /\ Len(saving') = Len(saving) + 1
           /\ SubSeq(saving', 1, Len(saving)) = saving
           /\ getGlobalSettings' = saving'[Len(saving')].data
           /\ \A g \in DOMAIN settings' :
                settings'[g] = IF g \in DOMAIN Partial1 THEN Partial1[g] ELSE settings[g]
           /\ out' = <<Ev("saveData", <<>>, <<>>, 0)>>
           /\ persisted' = persisted
    /\ op'.name = "update-saved"
        => /\ \E i \in 1..Len(saving) :
                /\ ~saving[i].refresh
                /\ saving' = RemoveAt(saving, i)
                /\ persisted' = saving[i].data
           /\ out' = <<>>
    /\ Calls(out', "forceRefresh") # <<>> => op'.name = "save-done"

\* C20 Settings change ordering: a change made in the settings tab saves the
\*     new settings first and refreshes, once the save has completed, exactly
\*     the managers then in the index; a change made through updateSettings
\*     is saved and refreshes nothing.
C20_SettingsChangeOrdering == [][C20_Step]_vars

C20_StepAsStated ==
    /\ (op'.name \in {"settings-change", "updateSettings"} /\ settings # Undefined)
        => /\ Len(saving') = Len(saving) + 1
           /\ SubSeq(saving', 1, Len(saving)) = saving
           /\ getGlobalSettings' = saving'[Len(saving')].data
           /\ out' = <<Ev("saveData", <<>>, <<>>, 0)>>
           /\ persisted' = persisted
    /\ op'.name \in {"save-done", "update-saved"}
        => /\ \E i \in 1..Len(saving) :
                /\ saving' = RemoveAt(saving, i)
                /\ persisted' = saving[i].data
           /\ stateManagers' = stateManagers
           /\ \A f \in Files :
                CallsTo(out', "forceRefresh", <<f>>) =
                    IF f \in DOMAIN stateManagers'
                    THEN <<Ev("forceRefresh", <<f>>, <<>>, stateManagers'[f].id)>>
                    ELSE <<>>
           /\ Len(out') = Cardinality(DOMAIN stateManagers')
    /\ Calls(out', "forceRefresh") # <<>> => op'.name \in {"save-done", "update-saved"}

\* C20 Settings change ordering, as stated: every settings change, whichever
\*     operation makes it, saves the new settings first and refreshes, once
\*     the save has completed, exactly the managers then in the index.
C20_AsStated == [][C20_StepAsStated]_vars

\* a save completed after the manager indexed at the change had been disposed
\* and another one created: only the new one was refreshed
C20_Witness ==
    /\ op.name = "save-done"
    /\ changeIndex # {}
    /\ changeIndex \cap ManagerIds(stateManagers) = {}
    /\ Len(Calls(out, "forceRefresh")) = 1
    /\ \A e \in Range(out) : e.n \notin changeIndex

\* ------------------------------------------------------------------------
\* C21 Unload ordering and completion
\* ------------------------------------------------------------------------
\* unload marks every database leaf "markdown" before asking it for markdown
\* (so the request goes through as it is) and does not touch the registries;
\* the base unload runs only once the requests have settled, and at most once
C21_Step ==
    /\ op'.name = "unload" =>
        /\ \A l \in Leaves :
            (leaves[l].attached /\ leaves[l].type = FRONTMATTER_KEY)
                => /\ MapGet(databaseFileModes', LeafId(l), "absent") = MARKDOWN
                   /\ CallsTo(out', "setViewState", <<l>>)
                        = <<Forward(l, MARKDOWN, leaves[l].file, "pop")>>
        /\ regVars' = regVars
        /\ loaded' = loaded
        /\ lifecycle' # "unloaded"
    /\ op'.name = "super.unload" =>
        /\ lifecycle \notin {"running", "awaiting", "unloaded"}
        /\ lifecycle' = "unloaded"

\* C21 Unload ordering and completion: unload marks each database leaf before
\*     its markdown request, the base unload runs only after all the requests
\*     have completed and at most once, and every unload is followed by the
\*     base unload in the end, however the requests turn out.
C21_UnloadOrderingAndCompletion ==
    /\ [][C21_Step]_vars
    /\ (op.name = "unload") ~> (lifecycle = "unloaded")

====
